---- MODULE Spec2Model ----
(***************************************************************************)
(* A model of the consciousness-analysis scripts:                          *)
(*   analyze_theories.py  the paper analyzer and its dedupe ledger         *)
(*   summary.py           the summary generator                            *)
(*   update_theory.py     the cumulative theory updater                    *)
(*   analysis_viewer.py   the Flask viewer's loader                        *)
(* Files are modelled by their parsed JSON content, the retry decorators   *)
(* by tenacity's attempt loop with the arguments the scripts pass.         *)
(***************************************************************************)
EXTENDS Integers, Sequences, FiniteSets, TLC

VARIABLES
    papers,     \* PAPERS_DIR: pdf stem -> bytes of <stem>.pdf, or Missing
    outDir,     \* OUTPUT_DIR: file name -> parsed content of the file
    pc,         \* analyzer process -> position in analyze_paper_from_pdf
    cur,        \* analyzer process -> stem of the PDF it is working on
    flag,       \* analyzer process -> its --reprocess flag
    res,        \* analyzer process -> the result dict in flight
    snap,       \* analyzer process -> `processed' as read by save_processed_paper
    ret,        \* analyzer process -> what analyze_paper_from_pdf returned
    api,        \* analyzer process -> whether this invocation called the API
    model,      \* analyzer process -> its --model argument
    called,     \* history: analyzer process -> model named in its API request
    batch,      \* analyzer __main__: the batch loop, its counters, the exit code
    returned,   \* history: pdf stem -> the last invocation that returned a result
    rcall,      \* retry: the wrapped function being called, or "none"
    rattempt,   \* retry: how many times the wrapped function was invoked
    rlast,      \* retry: the exception of the last attempt, or "none"
    rout,       \* retry: what the caller gets (running, returned, raised)
    rtransient, \* history: every attempt so far failed with a transient error
    rvalue,     \* retry: the last attempt's response text and the value returned
    clock,      \* the local wall clock, in seconds
    theoryFile, \* THEORY_DIR/current_theory.json
    backups,    \* THEORY_DIR/theory_backup_<stamp>.json, by stamp
    upc,        \* updater: position in update_cumulative_theory
    ucur,       \* updater: current_theory as loaded at line 285
    unew,       \* updater: file name of new_analysis
    utheory,    \* updater: updated_theory
    uret,       \* updater: value returned and the exit code it leads to
    ustart,     \* history: the theory files when the run started
    runs,       \* history: how many theories the LLM has produced
    saved,      \* history: run and backup stamp of each successful update
    view,       \* viewer: what the last load_analysis_results gave
    browser     \* viewer: the page in the browser, its script's state and DOM

analyzerVars ==
    <<papers, outDir, pc, cur, flag, res, snap, ret, api, returned, model, called>>

retryVars == <<rcall, rattempt, rlast, rout, rtransient, rvalue>>

updaterVars ==
    <<theoryFile, backups, upc, ucur, unew, utheory, uret, ustart, runs, saved>>

vars == <<analyzerVars, retryVars, clock, updaterVars, view, browser, batch>>

otherThanAnalyzer == <<retryVars, clock, updaterVars, view, browser, batch>>

otherThanRetry == <<analyzerVars, clock, updaterVars, view, browser, batch>>

-----------------------------------------------------------------------------
(* Names and file contents                                                 *)

Missing == "missing"

\* Bytes a PDF may hold, and hashlib.md5 on them: distinct bytes of this small
\* domain get distinct digests.
Bytes == {"b1", "b2"}

MD5(b) == CASE b = "b1" -> "h1" [] b = "b2" -> "h2"

PdfStems == {<<"x">>, <<"y">>}

Procs == {"p1", "p2"}

JsonExt == <<".json">>

PROCESSED_LOG ==
    <<"p","r","o","c","e","s","s","e","d","_","p","a","p","e","r","s">> \o JsonExt

\* Paper titles the LLM may report: a plain one, one that differs from it only
\* in a character sanitize_filename removes, and "processed papers".
Titles ==
    { <<"Q">>,
      <<"Q", ":">>,
      <<"p","r","o","c","e","s","s","e","d"," ","p","a","p","e","r","s">> }

NoTitle == <<>>

TitleLimit == 100

Take(s, n) == IF Len(s) <= n THEN s ELSE SubSeq(s, 1, n)

InvalidChars == {"<", ">", ":", "\"", "/", "\\", "|", "?", "*"}

RECURSIVE ReplaceChars(_)
ReplaceChars(s) ==
    IF s = <<>> THEN <<>>
    ELSE LET c == Head(s)
             rest == ReplaceChars(Tail(s))
         IN  IF c \in InvalidChars \cup {",", "."} THEN rest
             ELSE IF c = " " THEN <<"_">> \o rest
             ELSE <<c>> \o rest

sanitize_filename(title) == Take(ReplaceChars(title), TitleLimit)

\* One entry of processed_papers.json (has = FALSE: no entry under that key).
NoEntry == [has |-> FALSE, file_hash |-> "", output_file |-> <<>>]

NoEntries == [d \in PdfStems |-> NoEntry]

\* The top-level keys of an analysis result (has = FALSE: none of them).
\* `evidence' gives the phenomenon_id of each item of the evidence array,
\* `claims' the supported_claims list, `insights' the length of
\* additional_or_contradictory_insights, `model_used' is _metadata.model_used
\* and `ts' is _metadata.analysis_timestamp (0: the key is not there).
NoResult ==
    [has |-> FALSE, pdf |-> <<>>, title |-> NoTitle, stub |-> FALSE, ts |-> 0,
     evidence |-> <<>>, claims |-> <<>>, insights |-> 0, model_used |-> "none"]

\* A file of OUTPUT_DIR by what json.load makes of it: "absent" (no such file),
\* "invalid" (not JSON), "list" (a JSON array), "dict" (a JSON object, given by
\* its keys that are PDF names, `entries', and its analysis keys, `result').
Absent == [json |-> "absent", entries |-> NoEntries, result |-> NoResult]

InvalidFile == [json |-> "invalid", entries |-> NoEntries, result |-> NoResult]

ListFile == [json |-> "list", entries |-> NoEntries, result |-> NoResult]

DictFile(e, r) == [json |-> "dict", entries |-> e, result |-> r]

EmptyDict == DictFile(NoEntries, NoResult)

Exists(dir, f) == dir[f].json # "absent"

OutputName(title) == sanitize_filename(title) \o JsonExt

\* Result files named analysis_1.json and analysis_2.json (the analyzer writes
\* them for the titles "analysis 1" and "analysis 2"), in sorted order.
AnalysisPrefix == <<"a","n","a","l","y","s","i","s">>

AnalysisTitles == <<AnalysisPrefix \o <<" ", "1">>, AnalysisPrefix \o <<" ", "2">> >>

AnalysisNames ==
    [i \in DOMAIN AnalysisTitles |-> OutputName(AnalysisTitles[i])]

\* summary.py: OUTPUT_JSON, in the same directory.
OUTPUT_JSON == <<"s","u","m","m","a","r","i","e","s">> \o JsonExt

FileNames ==
    {PROCESSED_LOG, OUTPUT_JSON}
    \cup {OutputName(t) : t \in Titles \cup PdfStems}
    \cup {AnalysisNames[i] : i \in DOMAIN AnalysisNames}

\* A directory listing: the entries in some order, or in the reverse of it.
RECURSIVE SetToSeq(_)
SetToSeq(S) ==
    IF S = {} THEN <<>>
    ELSE LET x == CHOOSE y \in S : TRUE IN <<x>> \o SetToSeq(S \ {x})

Reverse(sq) == [i \in DOMAIN sq |-> sq[Len(sq) + 1 - i]]

-----------------------------------------------------------------------------
(* The retry decorators (tenacity) as the three scripts configure them     *)

\* Exceptions an attempt may raise. httpx's ReadTimeout and ConnectTimeout
\* are subclasses of httpx.HTTPError; "HTTPError" stands for its other ones.
TimeoutTypes == {"ReadTimeout", "ConnectTimeout"}

HttpxErrors == TimeoutTypes \cup {"HTTPError"}

OtherErrors ==
    {"JSONDecodeError", "KeyError", "AttributeError", "FileNotFoundError"}

Exceptions == HttpxErrors \cup {"TimeoutError"} \cup OtherErrors

\* The errors the specification calls transient: timeouts, connection
\* errors, generic HTTP errors.
Transient == HttpxErrors \cup {"TimeoutError"}

AnalyzerAttempts == 4

SummaryAttempts == 4

UpdaterAttempts == 3

\* retry=retry_if_exception_type((ReadTimeout, ConnectTimeout, HTTPError,
\* TimeoutError)), by isinstance.
RetryableTypes == TimeoutTypes \cup {"HTTPError", "TimeoutError"}

\* analyze_theories.py: retryable
AnalyzerRetryable ==
    [attempts |-> AnalyzerAttempts, retry_on |-> RetryableTypes, reraise |-> TRUE]

\* summary.py: retryable
SummaryRetryable ==
    [attempts |-> SummaryAttempts, retry_on |-> RetryableTypes, reraise |-> TRUE]

\* update_theory.py: @retry(stop=..., wait=...) names neither retry= nor
\* reraise=, so tenacity retries on every Exception and does not reraise.
UpdaterRetry ==
    [attempts |-> UpdaterAttempts, retry_on |-> Exceptions, reraise |-> FALSE]

Wrapped ==
    { "analyzer.upload_file", "analyzer.vs_add_file",
      "analyzer.analyze_with_store", "summary.upload_file",
      "summary.vs_add_file", "summary.summarize_with_store",
      "update_theory_with_gpt5" }

Decorator(w) ==
    CASE w \in {"analyzer.upload_file", "analyzer.vs_add_file",
                "analyzer.analyze_with_store"} -> AnalyzerRetryable
      [] w \in {"summary.upload_file", "summary.vs_add_file",
                "summary.summarize_with_store"} -> SummaryRetryable
      [] w = "update_theory_with_gpt5" -> UpdaterRetry

\* What the body of each wrapped function can raise. analyze_with_store
\* catches JSONDecodeError itself (lines 235-244) and returns the stub;
\* the upload opens the PDF; the updater parses the response (line 253) and
\* probes the analyses with .get (lines 148-163, 179-195).
Raises(w) ==
    CASE w \in {"analyzer.upload_file", "summary.upload_file"}
           -> Transient \cup {"FileNotFoundError"}
      [] w \in {"analyzer.vs_add_file", "summary.vs_add_file",
                "summary.summarize_with_store"}
           -> Transient \cup {"AttributeError"}
      [] w = "analyzer.analyze_with_store"
           -> Transient \cup {"AttributeError"}
      [] w = "update_theory_with_gpt5"
           -> Transient \cup {"JSONDecodeError", "KeyError", "AttributeError"}

\* No attempt has returned.
NoValue == [text |-> "none", value |-> "none"]

NotCalled == [kind |-> "none", exc |-> "none", wrapped |-> FALSE]

Running == [kind |-> "running", exc |-> "none", wrapped |-> FALSE]

Returned == [kind |-> "returned", exc |-> "none", wrapped |-> FALSE]

\* The caller gets exception e, or a tenacity.RetryError holding it.
Raised(e, inRetryError) == [kind |-> "raised", exc |-> e, wrapped |-> inRetryError]

\* Mutant of stop_after_attempt: one attempt more than configured.
stop_after_attempt_Late(max_attempt_number, attempt_number) ==
    attempt_number > max_attempt_number

\* tenacity's stop_after_attempt(n): attempt_number >= n.
stop_after_attempt(max_attempt_number, attempt_number) ==
    attempt_number >= max_attempt_number

\* tenacity's retry_if_exception_type(types)
retry_if_exception_type(types, e) == e \in types

\* One pass of tenacity's loop after attempt number n raised e:
\* not retryable -> the exception itself; stop -> the exception (reraise)
\* or RetryError; otherwise sleep and try again.
AfterFailure(dec, n, e) ==
    IF ~retry_if_exception_type(dec.retry_on, e) THEN Raised(e, FALSE)
    ELSE IF stop_after_attempt(dec.attempts, n) THEN Raised(e, ~dec.reraise)
    ELSE Running

RetryCall(w) ==
    /\ rcall = "none"
    /\ rcall' = w
    /\ rattempt' = 0
    /\ rlast' = "none"
    /\ rout' = Running
    /\ rtransient' = TRUE
    /\ rvalue' = NoValue
    /\ UNCHANGED otherThanRetry

AttemptReturns ==
    /\ rout.kind = "running"
    /\ rattempt' = rattempt + 1
    /\ rout' = Returned
    /\ rvalue' = [text |-> "none", value |-> "result"]
    /\ UNCHANGED <<rcall, rlast, rtransient>>
    /\ UNCHANGED otherThanRetry

AttemptRaises(e) ==
    /\ rout.kind = "running"
    /\ e \in Raises(rcall)
    /\ rattempt' = rattempt + 1
    /\ rlast' = e
    /\ rtransient' = (rtransient /\ e \in Transient)
    /\ rout' = AfterFailure(Decorator(rcall), rattempt + 1, e)
    /\ UNCHANGED <<rcall, rvalue>>
    /\ UNCHANGED otherThanRetry

\* The caller has the value or the exception; the call is over.
RetryEnd ==
    /\ rout.kind \in {"returned", "raised"}
    /\ rcall' = "none"
    /\ rattempt' = 0
    /\ rlast' = "none"
    /\ rout' = NotCalled
    /\ rtransient' = TRUE
    /\ rvalue' = NoValue
    /\ UNCHANGED otherThanRetry

-----------------------------------------------------------------------------
(* update_theory.py: the cumulative theory and its backups                 *)

MaxClock == 3

MaxRuns == 2

\* strftime("%Y%m%d_%H%M%S") of the clock: one stamp per second.
Stamps == 1..MaxClock

strftime(now) == now

\* A theory document by what json.load makes of it: "absent", "partial" (a
\* write that failed part-way left text that does not parse) or "theory",
\* the document of LLM response number `run' with its incorporated list.
NoTheory == [kind |-> "absent", run |-> 0, incorporated |-> <<>>]

PartialTheory == [kind |-> "partial", run |-> 0, incorporated |-> <<>>]

TheoryDoc(n, inc) == [kind |-> "theory", run |-> n, incorporated |-> inc]

NotReturned == [value |-> "none", exit |-> 0]

\* load_current_theory: None when the file is absent or does not load.
load_current_theory(tf) == IF tf.kind = "theory" THEN tf ELSE NoTheory

\* glob("analysis_*.json")
GlobAnalysis(f) ==
    /\ Len(f) > Len(AnalysisPrefix) + 2
    /\ SubSeq(f, 1, Len(AnalysisPrefix) + 1) = AnalysisPrefix \o <<"_">>
    /\ f[Len(f)] = JsonExt[1]

\* load_all_analyses: the sorted matches that load as a dict (a file that
\* does not parse, or parses to a list, is logged and skipped).
load_all_analyses(dir) ==
    SelectSeq(AnalysisNames,
              LAMBDA f : GlobAnalysis(f) /\ dir[f].json = "dict")

\* Mutant of the sort key: the order of the keys is turned round, as when
\* reverse=True is left out.
analysis_timestamp_Ascending(dir, f) == 0 - dir[f].result.ts

\* x.get('_metadata', {}).get('analysis_timestamp', '')
analysis_timestamp(dir, f) == dir[f].result.ts

\* sorted(..., key=..., reverse=True): stable, greatest key first.
RECURSIVE InsertDesc(_, _, _)
InsertDesc(dir, f, sorted) ==
    IF sorted = <<>> THEN <<f>>
    ELSE IF analysis_timestamp(dir, Head(sorted)) >= analysis_timestamp(dir, f)
    THEN <<Head(sorted)>> \o InsertDesc(dir, f, Tail(sorted))
    ELSE <<f>> \o sorted

RECURSIVE SortDesc(_, _)
SortDesc(dir, fs) ==
    IF fs = <<>> THEN <<>>
    ELSE InsertDesc(dir, fs[Len(fs)], SortDesc(dir, SubSeq(fs, 1, Len(fs) - 1)))

InSeq(x, sq) == \E i \in DOMAIN sq : sq[i] = x

\* Mutant of lines 135-143: the theory's incorporated list is not consulted.
find_latest_analysis_Newest(dir, tf, analyses) ==
    IF analyses = <<>> THEN <<>> ELSE SortDesc(dir, analyses)[1]

\* find_latest_analysis: <<>> stands for None.
find_latest_analysis(dir, tf, analyses) ==
    LET sorted_analyses == SortDesc(dir, analyses)
        current_theory == load_current_theory(tf)
        fresh == SelectSeq(sorted_analyses,
                           LAMBDA f : ~InSeq(f, current_theory.incorporated))
    IN  IF analyses = <<>> THEN <<>>
        ELSE IF current_theory.kind # "theory" THEN sorted_analyses[1]
        ELSE IF fresh = <<>> THEN <<>>
        ELSE fresh[1]

\* Mutant of lines 334-336: the handler hands back the theory it loaded.
OnUpdateFailure_ReturnsCurrent == [value |-> "theory", exit |-> 0]

\* Lines 334-336 and 414-420: a failed update returns None, the CLI exits 1.
OnUpdateFailure == [value |-> "None", exit |-> 1]

\* Lines 332 and 414-417: the updated theory is returned, exit code 0.
OnUpdateSuccess == [value |-> "theory", exit |-> 0]

\* Lines 285-311 of update_cumulative_theory (all reads), then the call of
\* update_theory_with_gpt5. `specific' is --analysis, <<>> when not given.
UStart(specific) ==
    /\ upc = "idle"
    /\ LET current_theory == load_current_theory(theoryFile)
           all_analyses == load_all_analyses(outDir)
           new_analysis ==
               IF specific # <<>>
               THEN (IF InSeq(specific, all_analyses) THEN specific ELSE <<>>)
               ELSE find_latest_analysis(outDir, theoryFile, all_analyses)
       IN  /\ ucur' = current_theory
           /\ unew' = new_analysis
           /\ ustart' = [theoryFile |-> theoryFile, backups |-> backups,
                         specific |-> specific]
           /\ IF all_analyses = <<>> \/ (specific # <<>> /\ new_analysis = <<>>)
              THEN /\ upc' = "done"
                   /\ uret' = OnUpdateFailure
                   /\ UNCHANGED retryVars
              ELSE IF new_analysis = <<>>
              THEN /\ upc' = "done"
                   /\ uret' = OnUpdateSuccess
                   /\ UNCHANGED retryVars
              ELSE /\ runs < MaxRuns
                   /\ upc' = "llm"
                   /\ uret' = NotReturned
                   /\ rcall' = "update_theory_with_gpt5"
                   /\ rattempt' = 0
                   /\ rlast' = "none"
                   /\ rout' = Running
                   /\ rtransient' = TRUE
                   /\ rvalue' = NoValue
    /\ UNCHANGED <<theoryFile, backups, utheory, runs, saved>>
    /\ UNCHANGED <<analyzerVars, clock, view, browser, batch>>

\* Mutant of lines 263-266: the new file's name is not appended.
Incorporated_Unrecorded(current_theory, new_analysis) ==
    current_theory.incorporated

\* Lines 263-266: the incorporated list of the theory loaded, plus the new file.
Incorporated(current_theory, new_analysis) ==
    Append(current_theory.incorporated, new_analysis)

\* Lines 313-323 and 334-336: the call raised (the handler returns None), or
\* it returned the updated theory and save_theory is entered.
UAfterCall ==
    /\ upc = "llm"
    /\ rout.kind \in {"returned", "raised"}
    /\ IF rout.kind = "raised"
       THEN /\ upc' = "done"
            /\ uret' = OnUpdateFailure
            /\ UNCHANGED <<utheory, runs>>
       ELSE /\ upc' = "save_current"
            /\ utheory' = TheoryDoc(runs + 1, Incorporated(ucur, unew))
            /\ runs' = runs + 1
            /\ UNCHANGED uret
    /\ UNCHANGED <<theoryFile, backups, ucur, unew, ustart, saved>>
    /\ UNCHANGED <<analyzerVars, retryVars, clock, view, browser, batch>>

\* How a write ends: done; failed in open() (the file is as before); failed
\* in json.dump (the file is truncated or cut short).
WriteOutcomes == {"ok", "open_failed", "dump_failed"}

WriteFile(old, new, outcome) ==
    CASE outcome = "ok" -> new
      [] outcome = "open_failed" -> old
      [] outcome = "dump_failed" -> PartialTheory

\* save_theory, lines 84-85; an exception is re-raised (line 96) and turned
\* into None at lines 334-336.
USaveCurrent(outcome) ==
    /\ upc = "save_current"
    /\ theoryFile' = WriteFile(theoryFile, utheory, outcome)
    /\ IF outcome = "ok"
       THEN upc' = "save_backup" /\ UNCHANGED uret
       ELSE upc' = "done" /\ uret' = OnUpdateFailure
    /\ UNCHANGED <<backups, ucur, unew, utheory, ustart, runs, saved>>
    /\ UNCHANGED <<analyzerVars, retryVars, clock, view, browser, batch>>

\* Mutant of lines 90-91: the backup holds the theory that was loaded.
BackupContent_Previous(theory, previous) == previous

\* Lines 90-91: the backup is a dump of the same `theory'.
BackupContent(theory, previous) == theory

\* save_theory, lines 88-91, and the return at line 332.
USaveBackup(outcome) ==
    /\ upc = "save_backup"
    /\ LET timestamp == strftime(clock)
       IN  /\ backups' = [backups EXCEPT ![timestamp] =
                           WriteFile(@, BackupContent(utheory, ucur), outcome)]
           /\ IF outcome = "ok"
              THEN /\ uret' = OnUpdateSuccess
                   /\ saved' = Append(saved, [run |-> utheory.run, stamp |-> timestamp])
              ELSE /\ uret' = OnUpdateFailure
                   /\ UNCHANGED saved
    /\ upc' = "done"
    /\ UNCHANGED <<theoryFile, ucur, unew, utheory, ustart, runs>>
    /\ UNCHANGED <<analyzerVars, retryVars, clock, view, browser, batch>>

\* The updater process ends.
UFinish ==
    /\ upc = "done"
    /\ upc' = "idle"
    /\ ucur' = NoTheory
    /\ unew' = <<>>
    /\ utheory' = NoTheory
    /\ uret' = NotReturned
    /\ ustart' = [theoryFile |-> theoryFile, backups |-> backups,
                  specific |-> <<>>]
    /\ rcall' = "none"
    /\ rattempt' = 0
    /\ rlast' = "none"
    /\ rout' = NotCalled
    /\ rtransient' = TRUE
    /\ rvalue' = NoValue
    /\ UNCHANGED <<theoryFile, backups, runs, saved>>
    /\ UNCHANGED <<analyzerVars, clock, view, browser, batch>>

\* A second passes.
Tick ==
    /\ clock < MaxClock
    /\ clock' = clock + 1
    /\ UNCHANGED <<analyzerVars, retryVars, updaterVars, view, browser, batch>>

-----------------------------------------------------------------------------
(* analyze_theories.py: the dedupe ledger                                  *)

\* load_processed_papers: {} when the log is absent or does not parse.
load_processed_papers(dir) ==
    IF dir[PROCESSED_LOG].json \in {"dict", "list"}
    THEN dir[PROCESSED_LOG]
    ELSE EmptyDict

KeyInProcessed(processed, d) ==
    processed.json = "dict" /\ processed.entries[d].has

\* is_already_processed raises when the key is logged and the PDF cannot be
\* opened (line 108 is outside any try).
is_already_processed_raises(dir, pap, d) ==
    KeyInProcessed(load_processed_papers(dir), d) /\ pap[d] = Missing

\* Mutant of line 113: the stored hash is never compared.
HashUnchanged_Ignored(stored_hash, current_hash) == TRUE

\* Line 113: current_hash != stored_hash returns False.
HashUnchanged(stored_hash, current_hash) == current_hash = stored_hash

is_already_processed(dir, pap, d) ==
    LET processed == load_processed_papers(dir)
        entry == processed.entries[d]
    IN  IF ~KeyInProcessed(processed, d) THEN FALSE
        ELSE IF ~HashUnchanged(entry.file_hash, MD5(pap[d])) THEN FALSE
        ELSE entry.output_file # <<>> /\ Exists(dir, entry.output_file)

-----------------------------------------------------------------------------
(* analyze_theories.py: analyze_paper_from_pdf, one step per file access   *)

\* What steps 1-5 (prompt, vector store, upload, attach, analyze_with_store)
\* hand back: an exception, or the value json.loads made of the response
\* ("dict" with or without paper_metadata.title, the {error, raw_response}
\* "stub", a JSON array, JSON null).
\* A dict that follows the prompt's schema carries evidence items.
SampleEvidence == <<"causal_control", "binding">>

\* An evidence item whose phenomenon_id is JSON null.
NullPhenomenon == "null"

Responses ==
    {[kind |-> "dict", title |-> t, evidence |-> SampleEvidence] :
        t \in Titles \cup {NoTitle}}
    \cup {[kind |-> k, title |-> NoTitle, evidence |-> <<>>] :
             k \in {"stub", "list", "null"}}

ApiOutcomes ==
    {[kind |-> "exception", title |-> NoTitle, evidence |-> <<>>]} \cup Responses

\* --model, its choices and default (lines 422-427), and the module's MODEL
\* (line 63), which analyze_with_store passes to the API (line 224).
Models == {"gpt-5", "gpt-5-mini", "gpt-5-nano"}

DefaultModel == "gpt-5"

MODEL == "gpt-5"

NoReturn == [has |-> FALSE, bytes |-> "", file |-> <<>>]

AllIdle == \A p \in Procs : pc[p] = "idle"

\* result.get('paper_metadata', {}).get('title', pdf_path.stem)
paper_title(r, stem) == IF r.title = NoTitle THEN stem ELSE r.title

output_filename(r, stem) == OutputName(paper_title(r, stem))

\* __main__: --reprocess unlinks the log, then analyze_paper_from_pdf starts
\* with model=args.model.
StartModel(p, d, rp, m) ==
    /\ pc[p] = "idle"
    /\ papers[d] # Missing
    /\ pc' = [pc EXCEPT ![p] = "check"]
    /\ model' = [model EXCEPT ![p] = m]
    /\ cur' = [cur EXCEPT ![p] = d]
    /\ flag' = [flag EXCEPT ![p] = rp]
    /\ IF rp /\ Exists(outDir, PROCESSED_LOG)
       THEN /\ outDir' = [outDir EXCEPT ![PROCESSED_LOG] = Absent]
            /\ returned' = [x \in PdfStems |-> NoReturn]
       ELSE UNCHANGED <<outDir, returned>>
    /\ UNCHANGED otherThanAnalyzer
    /\ UNCHANGED <<papers, res, snap, ret, api, called>>

\* A run without --model.
Start(p, d, rp) == StartModel(p, d, rp, DefaultModel)

\* Lines 260-263: the dedupe guard.
Check(p) ==
    /\ pc[p] = "check"
    /\ IF is_already_processed_raises(outDir, papers, cur[p])
       THEN /\ pc' = [pc EXCEPT ![p] = "done"]
            /\ ret' = [ret EXCEPT ![p] = "raised"]
       ELSE IF is_already_processed(outDir, papers, cur[p])
       THEN /\ pc' = [pc EXCEPT ![p] = "done"]
            /\ ret' = [ret EXCEPT ![p] = "None"]
       ELSE /\ pc' = [pc EXCEPT ![p] = "api"]
            /\ UNCHANGED ret
    /\ UNCHANGED otherThanAnalyzer
    /\ UNCHANGED <<papers, outDir, cur, flag, res, snap, api, returned, model, called>>

\* Line 224: client.responses.create(model=MODEL, ...), whatever the
\* `model' argument of analyze_paper_from_pdf is.
ApiModel(m) == MODEL

\* Lines 265-295 and the handlers at 312-320: an exception returns None; a
\* dict goes on to be saved; any other JSON value is returned as it is.
Api(p, o) ==
    /\ pc[p] = "api"
    /\ api' = [api EXCEPT ![p] = TRUE]
    /\ called' = [called EXCEPT ![p] =
                    IF o.kind = "exception" THEN @ ELSE ApiModel(model[p])]
    /\ IF o.kind \in {"dict", "stub"}
       THEN /\ res' = [res EXCEPT ![p] =
                        [has |-> TRUE, pdf |-> cur[p], title |-> o.title,
                         stub |-> (o.kind = "stub"), ts |-> clock,
                         evidence |-> o.evidence, claims |-> <<>>,
                         insights |-> 0,
                         model_used |-> model[p]]]
            /\ pc' = [pc EXCEPT ![p] = "save_json"]
            /\ UNCHANGED ret
       ELSE /\ pc' = [pc EXCEPT ![p] = "done"]
            /\ ret' = [ret EXCEPT ![p] =
                        IF o.kind = "list" THEN "result" ELSE "None"]
            /\ UNCHANGED res
    /\ UNCHANGED otherThanAnalyzer
    /\ UNCHANGED <<papers, outDir, cur, flag, snap, returned, model>>

\* save_json: the result dict replaces whatever file has that name.
save_json(dir, data, filename) ==
    [dir EXCEPT ![filename] = DictFile(NoEntries, data)]

SaveJson(p) ==
    /\ pc[p] = "save_json"
    /\ outDir' = save_json(outDir, res[p], output_filename(res[p], cur[p]))
    /\ pc' = [pc EXCEPT ![p] = "sp_load"]
    /\ UNCHANGED otherThanAnalyzer
    /\ UNCHANGED <<papers, cur, flag, res, snap, ret, api, returned, model, called>>

\* save_processed_paper, line 83: processed = load_processed_papers().
\* Item assignment on a list raises, which line 318 turns into None.
SpLoad(p) ==
    /\ pc[p] = "sp_load"
    /\ LET processed == load_processed_papers(outDir)
       IN  IF processed.json = "dict" /\ papers[cur[p]] # Missing
           THEN /\ snap' = [snap EXCEPT ![p] = processed]
                /\ pc' = [pc EXCEPT ![p] = "sp_write"]
                /\ UNCHANGED ret
           ELSE /\ pc' = [pc EXCEPT ![p] = "done"]
                /\ ret' = [ret EXCEPT ![p] = "None"]
                /\ UNCHANGED snap
    /\ UNCHANGED otherThanAnalyzer
    /\ UNCHANGED <<papers, outDir, cur, flag, res, api, returned, model, called>>

NewEntry(p) ==
    [has |-> TRUE, file_hash |-> MD5(papers[cur[p]]),
     output_file |-> output_filename(res[p], cur[p])]

\* Mutant of lines 83-97: the entry is merged into the log as it is at the
\* time of the write, not into the dict read at line 83.
ProcessedToWrite_Fresh(p) ==
    LET now == load_processed_papers(outDir)
    IN  DictFile([now.entries EXCEPT ![cur[p]] = NewEntry(p)], now.result)

\* What save_processed_paper dumps: the dict it read, with its own key set.
ProcessedToWrite(p) ==
    DictFile([snap[p].entries EXCEPT ![cur[p]] = NewEntry(p)], snap[p].result)

\* print_analysis_summary: the stub returns at the 'error' branch; for a
\* result, phenomenon_id.upper() (line 369) raises on a null phenomenon_id.
print_analysis_summary_raises(result) ==
    /\ result.has
    /\ ~result.stub
    /\ \E i \in DOMAIN result.evidence : result.evidence[i] = NullPhenomenon

\* save_processed_paper, lines 89-97, then step 8 (the summary on the
\* console) and the return of the result; an exception of step 8 is caught
\* at line 318, which returns None.
SpWrite(p) ==
    /\ pc[p] = "sp_write"
    /\ outDir' = [outDir EXCEPT ![PROCESSED_LOG] = ProcessedToWrite(p)]
    /\ pc' = [pc EXCEPT ![p] = "done"]
    /\ IF print_analysis_summary_raises(res[p])
       THEN /\ ret' = [ret EXCEPT ![p] = "None"]
            /\ UNCHANGED returned
       ELSE /\ ret' = [ret EXCEPT ![p] = "result"]
            /\ returned' = [returned EXCEPT ![cur[p]] =
                             [has |-> TRUE, bytes |-> papers[cur[p]],
                              file |-> output_filename(res[p], cur[p])]]
    /\ UNCHANGED otherThanAnalyzer
    /\ UNCHANGED <<papers, cur, flag, res, snap, api, model, called>>

\* The process ends.
Finish(p) ==
    /\ pc[p] = "done"
    /\ pc' = [pc EXCEPT ![p] = "idle"]
    /\ cur' = [cur EXCEPT ![p] = <<>>]
    /\ flag' = [flag EXCEPT ![p] = FALSE]
    /\ res' = [res EXCEPT ![p] = NoResult]
    /\ snap' = [snap EXCEPT ![p] = EmptyDict]
    /\ ret' = [ret EXCEPT ![p] = "none"]
    /\ api' = [api EXCEPT ![p] = FALSE]
    /\ model' = [model EXCEPT ![p] = DefaultModel]
    /\ called' = [called EXCEPT ![p] = "none"]
    /\ UNCHANGED otherThanAnalyzer
    /\ UNCHANGED <<papers, outDir, returned>>

\* Between runs the user edits a PDF ...
ModifyPdf(d, b) ==
    /\ AllIdle
    /\ papers[d] # b
    /\ papers' = [papers EXCEPT ![d] = b]
    /\ UNCHANGED otherThanAnalyzer
    /\ UNCHANGED <<outDir, pc, cur, flag, res, snap, ret, api, returned, model, called>>

\* ... or removes a result file.
DeleteOutput(f) ==
    /\ AllIdle
    /\ f # PROCESSED_LOG
    /\ Exists(outDir, f)
    /\ outDir' = [outDir EXCEPT ![f] = Absent]
    /\ UNCHANGED otherThanAnalyzer
    /\ UNCHANGED <<papers, pc, cur, flag, res, snap, ret, api, returned, model, called>>

\* No page of the viewer is open in a browser.
NoPage == [open |-> FALSE]

\* The viewer before any request.
NoStats ==
    [total_claims |-> 0, unique_claims |-> 0, total_insights |-> 0,
     claim_counts |-> <<>>]

NotLoaded == [path |-> "none", status |-> "none", papers |-> <<>>, stats |-> NoStats]

\* No batch run under way.
NoBatch ==
    [pc |-> "idle", todo |-> <<>>, found |-> 0, successful |-> 0,
     skipped |-> 0, failed |-> 0, exit |-> "none", attempted |-> {}]

\* Everything but the output directory.

InitRest ==
    /\ papers = [d \in PdfStems |-> "b1"]
    /\ pc = [p \in Procs |-> "idle"]
    /\ cur = [p \in Procs |-> <<>>]
    /\ flag = [p \in Procs |-> FALSE]
    /\ res = [p \in Procs |-> NoResult]
    /\ snap = [p \in Procs |-> EmptyDict]
    /\ ret = [p \in Procs |-> "none"]
    /\ api = [p \in Procs |-> FALSE]
    /\ returned = [d \in PdfStems |-> NoReturn]
    /\ model = [p \in Procs |-> DefaultModel]
    /\ called = [p \in Procs |-> "none"]
    /\ batch = NoBatch
    /\ rcall = "none"
    /\ rattempt = 0
    /\ rlast = "none"
    /\ rout = NotCalled
    /\ rtransient = TRUE
    /\ rvalue = NoValue
    /\ clock = 1
    /\ theoryFile = NoTheory
    /\ backups = [t \in Stamps |-> NoTheory]
    /\ upc = "idle"
    /\ ucur = NoTheory
    /\ unew = <<>>
    /\ utheory = NoTheory
    /\ uret = NotReturned
    /\ ustart = [theoryFile |-> NoTheory, backups |-> [t \in Stamps |-> NoTheory],
                 specific |-> <<>>]
    /\ runs = 0
    /\ saved = <<>>
    /\ view = NotLoaded
    /\ browser = NoPage

Init == InitRest /\ outDir = [f \in FileNames |-> Absent]

Run(p) ==
    \/ Check(p)
    \/ \E o \in ApiOutcomes : Api(p, o)
    \/ SaveJson(p)
    \/ SpLoad(p)
    \/ SpWrite(p)
    \/ Finish(p)

\* One analyzer at a time, as section 5 of the specification describes.
Next ==
    \/ \E d \in PdfStems, rp \in BOOLEAN : Start("p1", d, rp)
    \/ Run("p1")
    \/ \E d \in PdfStems, b \in Bytes : ModifyPdf(d, b)
    \/ \E f \in FileNames : DeleteOutput(f)

Spec == Init /\ [][Next]_vars

\* Two analyzers at once, each on its own PDF, without --reprocess.
NextRace ==
    \E p \in Procs :
        \/ \E d \in PdfStems : (\A q \in Procs : cur[q] # d) /\ Start(p, d, FALSE)
        \/ Run(p)

SpecRace == Init /\ [][NextRace]_vars

-----------------------------------------------------------------------------
(* analyze_theories.py: __main__ in single-PDF and in batch mode, with the *)
(* retried call of analyze_with_store spelled out                          *)

\* list(PAPERS_DIR.glob("*.pdf")): the PDFs present, in directory order.
PdfListings(pap) ==
    LET present == SetToSeq({d \in PdfStems : pap[d] # Missing})
    IN  {present, Reverse(present)}

\* The process of the run ends: analyze_paper_from_pdf's locals are gone.
ResetProc(p) ==
    /\ pc' = [pc EXCEPT ![p] = "idle"]
    /\ cur' = [cur EXCEPT ![p] = <<>>]
    /\ flag' = [flag EXCEPT ![p] = FALSE]
    /\ res' = [res EXCEPT ![p] = NoResult]
    /\ snap' = [snap EXCEPT ![p] = EmptyDict]
    /\ ret' = [ret EXCEPT ![p] = "none"]
    /\ api' = [api EXCEPT ![p] = FALSE]
    /\ called' = [called EXCEPT ![p] = "none"]

\* Lines 441-444: --reprocess unlinks the log.
ClearLog(rp) ==
    IF rp /\ Exists(outDir, PROCESSED_LOG)
    THEN /\ outDir' = [outDir EXCEPT ![PROCESSED_LOG] = Absent]
         /\ returned' = [x \in PdfStems |-> NoReturn]
    ELSE UNCHANGED <<outDir, returned>>

\* Lines 460-471: no --pdf. The PDFs are listed; with none the script exits 0.
BatchStart(m, rp) ==
    /\ batch.pc = "idle"
    /\ pc["p1"] = "idle"
    /\ ClearLog(rp)
    /\ \E pdf_files \in PdfListings(papers) :
          batch' = IF pdf_files = <<>>
                   THEN [NoBatch EXCEPT !.pc = "exited", !.exit = "0"]
                   ELSE [NoBatch EXCEPT !.pc = "loop", !.todo = pdf_files,
                                        !.found = Len(pdf_files)]
    /\ model' = [model EXCEPT !["p1"] = m]
    /\ UNCHANGED <<papers, pc, cur, flag, res, snap, ret, api, called>>
    /\ UNCHANGED <<retryVars, clock, updaterVars, view, browser>>

\* Line 474: analyze_paper_from_pdf(pdf_path, model=args.model) is entered
\* for the next listed PDF, whether or not the file is still there.
BatchItem ==
    /\ batch.pc = "loop"
    /\ batch.todo # <<>>
    /\ pc["p1"] = "idle"
    /\ pc' = [pc EXCEPT !["p1"] = "check"]
    /\ cur' = [cur EXCEPT !["p1"] = Head(batch.todo)]
    /\ batch' = [batch EXCEPT !.pc = "item",
                              !.attempted = @ \cup {Head(batch.todo)}]
    /\ UNCHANGED <<papers, outDir, flag, res, snap, ret, api, returned, model, called>>
    /\ UNCHANGED <<retryVars, clock, updaterVars, view, browser>>

\* Mutant of lines 476-479: a result of None is counted as skipped and as
\* failed.
CountNone_Both(b, processed) ==
    [b EXCEPT !.skipped = @ + 1, !.failed = @ + 1]

\* Lines 476-479: result is None.
CountNone(b, processed) ==
    IF processed THEN [b EXCEPT !.skipped = @ + 1]
    ELSE [b EXCEPT !.failed = @ + 1]

\* An exception nothing catches ends the script: traceback, exit code 1.
Crashed(b) == [b EXCEPT !.pc = "crashed", !.exit = "1"]

\* Lines 474-483: the call is back; one counter is incremented. An exception
\* out of analyze_paper_from_pdf or out of is_already_processed (line 477)
\* leaves the loop.
BatchCount ==
    /\ batch.pc = "item"
    /\ pc["p1"] = "done"
    /\ LET d == cur["p1"]
           next == [batch EXCEPT !.pc = "loop", !.todo = Tail(@)]
       IN  batch' =
             IF ret["p1"] = "raised" THEN Crashed(batch)
             ELSE IF ret["p1"] = "None"
             THEN (IF is_already_processed_raises(outDir, papers, d)
                   THEN Crashed(batch)
                   ELSE CountNone(next, is_already_processed(outDir, papers, d)))
             ELSE [next EXCEPT !.successful = @ + 1]
    /\ ResetProc("p1")
    /\ UNCHANGED <<papers, outDir, returned, model>>
    /\ UNCHANGED <<retryVars, clock, updaterVars, view, browser>>

\* Lines 454-459 and 485-493: after the run the script prints and falls off
\* its end, whatever the result: exit code 0.
ExitAfterRun(anyFailed) == "0"

\* Lines 485-493: the summary is printed.
BatchSummary ==
    /\ batch.pc = "loop"
    /\ batch.todo = <<>>
    /\ batch' = [batch EXCEPT !.pc = "summary",
                              !.exit = ExitAfterRun(batch.failed > 0)]
    /\ UNCHANGED <<analyzerVars, retryVars, clock, updaterVars, view, browser>>

\* Lines 446-452: --pdf names one file; a file not there exits 1.
SingleStart(d, m, rp) ==
    /\ batch.pc = "idle"
    /\ pc["p1"] = "idle"
    /\ ClearLog(rp)
    /\ IF papers[d] = Missing
       THEN /\ batch' = [NoBatch EXCEPT !.pc = "exited", !.exit = "1"]
            /\ UNCHANGED <<pc, cur, model>>
       ELSE /\ batch' = [NoBatch EXCEPT !.pc = "single", !.found = 1,
                                        !.attempted = {d}]
            /\ pc' = [pc EXCEPT !["p1"] = "check"]
            /\ cur' = [cur EXCEPT !["p1"] = d]
            /\ model' = [model EXCEPT !["p1"] = m]
    /\ UNCHANGED <<papers, flag, res, snap, ret, api, called>>
    /\ UNCHANGED <<retryVars, clock, updaterVars, view, browser>>

\* Lines 454-459: `if result:' picks the message; the script then ends.
SingleEnd ==
    /\ batch.pc = "single"
    /\ pc["p1"] = "done"
    /\ batch' =
         IF ret["p1"] = "raised" THEN Crashed(batch)
         ELSE IF ret["p1"] = "result"
         THEN [batch EXCEPT !.pc = "exited", !.successful = 1,
                            !.exit = ExitAfterRun(FALSE)]
         ELSE [batch EXCEPT !.pc = "exited", !.failed = 1,
                            !.exit = ExitAfterRun(TRUE)]
    /\ ResetProc("p1")
    /\ UNCHANGED <<papers, outDir, returned, model>>
    /\ UNCHANGED <<retryVars, clock, updaterVars, view, browser>>

\* The script's process is over.
BatchEnd ==
    /\ batch.pc \in {"summary", "crashed", "exited"}
    /\ batch' = NoBatch
    /\ model' = [model EXCEPT !["p1"] = DefaultModel]
    /\ UNCHANGED <<papers, outDir, pc, cur, flag, res, snap, ret, api, returned, called>>
    /\ UNCHANGED <<retryVars, clock, updaterVars, view, browser>>

\* A PDF is removed from PAPERS_DIR, at any moment. (Once
\* save_processed_paper has hashed the PDF, line 86, a removal before its
\* write is a removal after it.)
RemovePdf(d) ==
    /\ papers[d] # Missing
    /\ \A p \in Procs : pc[p] # "sp_write"
    /\ papers' = [papers EXCEPT ![d] = Missing]
    /\ UNCHANGED <<outDir, pc, cur, flag, res, snap, ret, api, returned, model, called>>
    /\ UNCHANGED otherThanAnalyzer

\* What the LLM's output_text is to json.loads.
ResponseTexts == {"json", "not_json"}

\* Mutant of lines 235-244: the JSONDecodeError is not caught.
ParseResponse_Uncaught(text) ==
    IF text = "json" THEN [raises |-> "none", value |-> "result"]
    ELSE [raises |-> "JSONDecodeError", value |-> "none"]

\* Lines 235-244 of analyze_with_store: json.loads(response_text), and the
\* {error, raw_response} stub when it raises JSONDecodeError.
ParseResponse(text) ==
    IF text = "json" THEN [raises |-> "none", value |-> "result"]
    ELSE [raises |-> "none", value |-> "stub"]

\* One attempt of analyze_with_store in which the API answered with `text'.
AttemptAnalyze(text) ==
    /\ rcall = "analyzer.analyze_with_store"
    /\ rout.kind = "running"
    /\ rattempt' = rattempt + 1
    /\ LET r == ParseResponse(text)
       IN  IF r.raises = "none"
           THEN /\ rout' = Returned
                /\ rvalue' = [text |-> text, value |-> r.value]
                /\ UNCHANGED <<rlast, rtransient>>
           ELSE /\ rout' = AfterFailure(Decorator(rcall), rattempt + 1, r.raises)
                /\ rlast' = r.raises
                /\ rtransient' = FALSE
                /\ rvalue' = [text |-> text, value |-> "none"]
    /\ UNCHANGED rcall
    /\ UNCHANGED otherThanRetry

\* Steps 1-4 (prompt file, vector store, upload, attach) are done and
\* analyze_with_store is called. The upload opens the PDF.
ApiCall(p) ==
    /\ pc[p] = "api"
    /\ papers[cur[p]] # Missing
    /\ RetryCall("analyzer.analyze_with_store")

\* Steps 1-4 raise (the prompt file or the PDF cannot be read, the network
\* fails): the handlers at 312-320 return None.
ApiFails(p) ==
    /\ rcall = "none"
    /\ Api(p, [kind |-> "exception", title |-> NoTitle, evidence |-> <<>>])

\* What json.loads may have made of a text that parsed.
ParsedAs(o) ==
    CASE rout.kind = "raised" -> o.kind = "exception"
      [] rout.kind = "returned" /\ rvalue.value = "stub" -> o.kind = "stub"
      [] rout.kind = "returned" /\ rvalue.value = "result" -> o.kind \in {"dict", "list", "null"}
      [] OTHER -> FALSE

\* analyze_with_store is back with its value or its exception.
ApiReturn(p, o) ==
    /\ rcall = "analyzer.analyze_with_store"
    /\ rout.kind \in {"returned", "raised"}
    /\ ParsedAs(o)
    /\ Api(p, o)

\* What the LLM answers in the runs of a script: a titled dict, the stub, a
\* JSON array, JSON null, and a titled dict that is valid JSON but not the
\* schema (an evidence item with a null phenomenon_id).
BatchOutcomes ==
    {o \in ApiOutcomes : o.kind # "exception" /\ o.title \in {NoTitle, <<"Q">>}
                          /\ (o.kind = "dict" => o.title # NoTitle)}
    \cup {[kind |-> "dict", title |-> <<"Q">>,
            evidence |-> <<"causal_control", NullPhenomenon>>]}

\* analyze_paper_from_pdf with the retried call, for the script's process.
RunScript ==
    \/ rcall = "none" /\ Check("p1")
    \/ ApiCall("p1")
    \/ ApiFails("p1")
    \/ \E text \in ResponseTexts : AttemptAnalyze(text)
    \/ rcall = "analyzer.analyze_with_store" /\ AttemptRaises("ReadTimeout")
    \/ \E o \in BatchOutcomes \cup {[kind |-> "exception", title |-> NoTitle, evidence |-> <<>>]} :
          ApiReturn("p1", o)
    \/ pc["p1"] # "api" /\ RetryEnd
    \/ rcall = "none" /\ SaveJson("p1")
    \/ rcall = "none" /\ SpLoad("p1")
    \/ rcall = "none" /\ SpWrite("p1")

\* Runs of the script without --model and without --reprocess, while PDFs
\* come and go.
NextBatch ==
    \/ BatchStart(DefaultModel, FALSE)
    \/ BatchItem
    \/ BatchCount
    \/ BatchSummary
    \/ \E d \in PdfStems : SingleStart(d, DefaultModel, FALSE)
    \/ SingleEnd
    \/ BatchEnd
    \/ \E d \in PdfStems : RemovePdf(d)
    \/ \E d \in PdfStems : batch.pc = "idle" /\ ModifyPdf(d, "b1")
    \/ RunScript

SpecBatch == Init /\ [][NextBatch]_vars

\* Single-PDF runs with each --model choice.
NextModels ==
    \/ \E d \in PdfStems, m \in Models, rp \in BOOLEAN : SingleStart(d, m, rp)
    \/ SingleEnd
    \/ BatchEnd
    \/ RunScript

SpecModels == Init /\ [][NextModels]_vars

-----------------------------------------------------------------------------
(* Claims about the dedupe ledger                                          *)

LogEntry(d) == outDir[PROCESSED_LOG].entries[d]

HasEntry(d) == outDir[PROCESSED_LOG].json = "dict" /\ LogEntry(d).has

HashMatches(d) ==
    papers[d] # Missing /\ MD5(papers[d]) = LogEntry(d).file_hash

OutputStillExists(d) == Exists(outDir, LogEntry(d).output_file)

Checks(p) == pc[p] = "check" /\ pc'[p] # "check"

Skips(p) == pc'[p] = "done" /\ ret'[p] = "None"

\* C1: the dedupe guard answers True (the invocation is skipped) exactly when
\* processed_papers.json has an entry under the PDF's name, the MD5 of the
\* PDF's current bytes equals the entry's file_hash, and the entry's
\* output_file exists in the output directory.
C1_GuardIffEntryHashOutput ==
    [][\A p \in Procs :
         Checks(p) =>
           (Skips(p) <=> (/\ HasEntry(cur[p])
                          /\ HashMatches(cur[p])
                          /\ OutputStillExists(cur[p])))]_vars

\* C1, its case: a logged PDF whose bytes changed under the same name, with its
\* output file in place, got False from the guard and goes on to the API.
C1_Witness ==
    \E p \in Procs :
        /\ pc[p] = "api"
        /\ HasEntry(cur[p])
        /\ ~HashMatches(cur[p])
        /\ OutputStillExists(cur[p])

\* C2: once an invocation on a PDF returned a result, a later invocation on
\* the same PDF with the same bytes, the result file on disk and no
\* --reprocess since, returns None, calls no API and writes no file.
C2_RerunIsSkipped ==
    [][\A p \in Procs :
         (/\ Checks(p)
          /\ ~flag[p]
          /\ returned[cur[p]].has
          /\ papers[cur[p]] = returned[cur[p]].bytes
          /\ Exists(outDir, returned[cur[p]].file))
         => (Skips(p) /\ ~api'[p] /\ outDir' = outDir)]_vars

Writes(p) == pc[p] = "sp_write" /\ pc'[p] = "done"

\* C6: save_processed_paper's write stores, for every other PDF, the entry
\* its own earlier read saw, whatever the log holds at the time of the write:
\* an entry another process added in between is lost.
C6_WriteStoresStaleRead ==
    [][\A p \in Procs : \A d \in PdfStems :
         (Writes(p) /\ d # cur[p])
         => outDir'[PROCESSED_LOG].entries[d] = snap[p].entries[d]]_vars

\* C6, its case: both processes have ended, each PDF's result file is
\* written, and the log (which no result file replaced) lacks one PDF.
C6_Witness ==
    /\ AllIdle
    /\ outDir[PROCESSED_LOG].json = "dict"
    /\ ~outDir[PROCESSED_LOG].result.has
    /\ \A d \in PdfStems : returned[d].has /\ Exists(outDir, returned[d].file)
    /\ \E d \in PdfStems : ~LogEntry(d).has

NextRetry ==
    \/ \E w \in Wrapped : RetryCall(w)
    \/ AttemptReturns
    \/ \E e \in Exceptions : AttemptRaises(e)
    \/ RetryEnd

SpecRetry == Init /\ [][NextRetry]_vars

-----------------------------------------------------------------------------
(* Claims about the retry wrappers                                         *)

Configured(w) == IF w = "update_theory_with_gpt5" THEN 3 ELSE 4

\* C3: when every attempt fails with a transient error, the wrapped function
\* has been invoked exactly the configured number of times (4 in the
\* analyzer and the summary generator, 3 in the theory updater) when the
\* exception reaches the caller, and is never invoked more often than that.
C3_ExactAttempts ==
    /\ rcall # "none" => rattempt <= Configured(rcall)
    /\ (rout.kind = "raised" /\ rtransient) => rattempt = Configured(rcall)

\* C3, its case: a call whose attempts all failed with transient errors has
\* raised to its caller.
C3_Witness ==
    /\ rcall = "analyzer.upload_file"
    /\ rout.kind = "raised"
    /\ rtransient
    /\ rattempt = 4

\* C4: when all attempts failed, the caller gets the final attempt's
\* exception itself, not wrapped in or replaced by another exception.
C4_FinalExceptionUnchanged ==
    rout.kind = "raised" => (rout.exc = rlast /\ ~rout.wrapped)

\* C5: after a non-transient exception no wrapped function is invoked
\* again: the call is over and the exception is with the caller.
C5_NoRetryOnNonTransient ==
    (rlast \in Exceptions \ Transient) => rout.kind = "raised"

-----------------------------------------------------------------------------
(* summary.py and analysis_viewer.py on the shared output directory        *)

\* summary.py main(): whatever each PDF's upload and summary gave, `results'
\* is a list and line 168-169 dumps it to summaries.json.
SummaryMain ==
    /\ \E d \in PdfStems : papers[d] # Missing
    /\ outDir' = [outDir EXCEPT ![OUTPUT_JSON] = ListFile]
    /\ UNCHANGED <<papers, pc, cur, flag, res, snap, ret, api, returned, model, called>>
    /\ UNCHANGED otherThanAnalyzer

\* The analyzer is interrupted inside save_json's json.dump (SIGINT is
\* re-raised at lines 315-317): the file is left cut short.
KillDuringSave(p) ==
    /\ pc[p] = "save_json"
    /\ outDir' = [outDir EXCEPT ![output_filename(res[p], cur[p])] = InvalidFile]
    /\ pc' = [pc EXCEPT ![p] = "done"]
    /\ ret' = [ret EXCEPT ![p] = "raised"]
    /\ UNCHANGED <<papers, cur, flag, res, snap, api, returned, model, called>>
    /\ UNCHANGED otherThanAnalyzer

\* list(OUTPUT_DIR.glob("*.json")): the files present, in directory order,
\* which nothing fixes: one order and its reverse are tried.
GlobJson(dir) ==
    LET present == SetToSeq({f \in FileNames : Exists(dir, f)})
    IN  {present, Reverse(present)}

\* json.load succeeds on any JSON value, not only on objects.
Loads(dir, f) == dir[f].json \in {"dict", "list"}

\* Lines 1515-1521: the files that load, in glob order.
LoadedPapers(dir, json_files) == SelectSeq(json_files, LAMBDA f : Loads(dir, f))

\* The sort key p.get('_metadata', {}).get(...) raises AttributeError on a
\* paper that is not a dict.
SortKeyRaises(dir, loaded) ==
    \E i \in DOMAIN loaded : dir[loaded[i]].json # "dict"

\* load_analysis_results: papers are given by the files they came from.
load_analysis_results(dir, json_files) ==
    LET loaded == LoadedPapers(dir, json_files)
    IN  IF SortKeyRaises(dir, loaded)
        THEN [status |-> "raised", papers |-> <<>>]
        ELSE [status |-> "ok", papers |-> SortDesc(dir, loaded)]

\* Claim numbers a result may list under supported_claims.
ClaimIds == {1, 2}

\* extract_claims_list(paper.get('supported_claims', [])) of a loaded file.
extract_claims_list(dir, f) == dir[f].result.claims

\* sum(n[i] for i), n a sequence of numbers.
RECURSIVE Sum(_)
Sum(n) == IF n = <<>> THEN 0 ELSE Head(n) + Sum(Tail(n))

Count(sq, x) == Cardinality({i \in DOMAIN sq : sq[i] = x})

\* str(claim) of a claim number, the key of claim_counts.
claim_str(claim) == CASE claim = 1 -> "1" [] claim = 2 -> "2"

\* Mutant of line 1543: the count of a claim is set to 1, not incremented.
CountClaim_Set(claim_counts, claim) ==
    IF claim_str(claim) \in DOMAIN claim_counts
    THEN [claim_counts EXCEPT ![claim_str(claim)] = 1]
    ELSE claim_counts @@ (claim_str(claim) :> 1)

\* Line 1543: claim_counts[claim_str] = claim_counts.get(claim_str, 0) + 1.
CountClaim(claim_counts, claim) ==
    IF claim_str(claim) \in DOMAIN claim_counts
    THEN [claim_counts EXCEPT ![claim_str(claim)] = @ + 1]
    ELSE claim_counts @@ (claim_str(claim) :> 1)

\* Lines 1541-1543: for claim in claims.
RECURSIVE CountClaims(_, _)
CountClaims(claim_counts, claims) ==
    IF claims = <<>> THEN claim_counts
    ELSE CountClaims(CountClaim(claim_counts, Head(claims)), Tail(claims))

\* Lines 1536-1546: for paper in papers.
RECURSIVE StatsLoop(_, _, _)
StatsLoop(dir, loaded, acc) ==
    IF loaded = <<>> THEN acc
    ELSE LET claims == extract_claims_list(dir, Head(loaded))
         IN  StatsLoop(dir, Tail(loaded),
                 [total_claims |-> acc.total_claims + Len(claims),
                  unique_claims |->
                      acc.unique_claims \cup {claims[i] : i \in DOMAIN claims},
                  total_insights |->
                      acc.total_insights + dir[Head(loaded)].result.insights,
                  claim_counts |-> CountClaims(acc.claim_counts, claims)])

\* calculate_statistics, lines 1529-1553: claims and insights are counted,
\* nothing else. claim_counts has a key for each claim that occurs.
calculate_statistics(dir, loaded) ==
    LET acc == StatsLoop(dir, loaded,
                         [total_claims |-> 0, unique_claims |-> {},
                          total_insights |-> 0, claim_counts |-> <<>>])
    IN  [total_claims |-> acc.total_claims,
         unique_claims |-> Cardinality(acc.unique_claims),
         total_insights |-> acc.total_insights,
         claim_counts |-> acc.claim_counts]

\* The URL rules the module registers: @app.route('/') is the only one.
Routes == {"/"}

\* The paths the specification lists.
ApiPaths == {"/api/papers", "/api/phenomena", "/api/stats", "/api/claims"}

\* GET /: index loads the papers, computes the statistics and renders both.
\* An exception in the handler is a 500 response.
index ==
    /\ view = NotLoaded
    /\ \E json_files \in GlobJson(outDir) :
          LET loaded == load_analysis_results(outDir, json_files)
          IN  view' = [path |-> "/", status |-> loaded.status,
                       papers |-> loaded.papers,
                       stats |-> IF loaded.status = "ok"
                                 THEN calculate_statistics(outDir, loaded.papers)
                                 ELSE NoStats]
    /\ UNCHANGED <<analyzerVars, retryVars, clock, updaterVars, browser, batch>>

\* GET of a path no URL rule matches: Flask answers 404.
NotFound(path) ==
    /\ view = NotLoaded
    /\ path \notin Routes
    /\ view' = [path |-> path, status |-> "not_found", papers |-> <<>>,
                stats |-> NoStats]
    /\ UNCHANGED <<analyzerVars, retryVars, clock, updaterVars, browser, batch>>

\* The response is sent and the request is over.
ViewerRespond ==
    /\ view # NotLoaded
    /\ view' = NotLoaded
    /\ UNCHANGED <<analyzerVars, retryVars, clock, updaterVars, browser, batch>>

-----------------------------------------------------------------------------
(* The theory updater, run after run                                       *)

AnalysisResult(i, t) ==
    [has |-> TRUE, pdf |-> <<"x">>, title |-> AnalysisTitles[i],
     stub |-> FALSE, ts |-> t, evidence |-> SampleEvidence, claims |-> <<>>,
     insights |-> 0, model_used |-> DefaultModel]

\* What analysis_<i>.json holds: text that does not parse (k = 0), or a
\* result with analysis_timestamp k.
AnalysisFile(i, k) ==
    IF k = 0 THEN InvalidFile ELSE DictFile(NoEntries, AnalysisResult(i, k))

AnalysisIndex(f) == CHOOSE i \in DOMAIN AnalysisNames : AnalysisNames[i] = f

\* The output directory holds analysis_1.json and analysis_2.json.
InitUpdater ==
    /\ InitRest
    /\ \E k \in [DOMAIN AnalysisNames -> 0..2] :
         outDir = [f \in FileNames |->
                     IF \E i \in DOMAIN AnalysisNames : AnalysisNames[i] = f
                     THEN AnalysisFile(AnalysisIndex(f), k[AnalysisIndex(f)])
                     ELSE Absent]

NextUpdater ==
    \/ \E sp \in {<<>>} \cup {AnalysisNames[i] : i \in DOMAIN AnalysisNames} :
          UStart(sp)
    \/ upc = "llm" /\ AttemptReturns
    \/ upc = "llm" /\ \E e \in {"ReadTimeout", "JSONDecodeError"} : AttemptRaises(e)
    \/ UAfterCall
    \/ \E o \in WriteOutcomes : USaveCurrent(o)
    \/ \E o \in WriteOutcomes : USaveBackup(o)
    \/ UFinish
    \/ Tick

SpecUpdater == InitUpdater /\ [][NextUpdater]_vars

-----------------------------------------------------------------------------
(* Claims about the theory updater                                         *)

CallFailed == upc = "done" /\ rout.kind = "raised"

FilesAsAtStart ==
    theoryFile = ustart.theoryFile /\ backups = ustart.backups

\* C7: when the LLM call or the parsing of its response failed on every
\* attempt, update_cumulative_theory returns None, the CLI exits 1, and
\* current_theory.json and every backup file are as they were before the run.
C7_FailedMergeWritesNothing ==
    CallFailed => (uret.value = "None" /\ uret.exit = 1 /\ FilesAsAtStart)

\* C7, its case: over an existing theory, every attempt's response failed to
\* parse and the run has ended.
C7_Witness ==
    /\ CallFailed
    /\ rattempt = 3
    /\ rlast = "JSONDecodeError"
    /\ ustart.theoryFile.kind = "theory"

SaveEnded ==
    upc = "done" /\ utheory.kind = "theory"

HasBackupOf(t) == \E st \in Stamps : backups[st] = t

\* C8 as stated: once save_theory has ended, by returning or by raising,
\* having changed current_theory.json, a backup file identical to the
\* current file exists.
C8_CurrentAlwaysBackedUp ==
    (SaveEnded /\ theoryFile # ustart.theoryFile) => HasBackupOf(theoryFile)

\* C8 as amended: once save_theory has returned normally, current_theory.json
\* holds the updated theory and a backup file identical to it exists.
C8_BackedUpOnReturn ==
    (SaveEnded /\ uret.value = "theory")
    => (theoryFile = utheory /\ HasBackupOf(theoryFile))

\* C8, its case: save_theory returned after replacing an earlier theory.
C8_Witness ==
    /\ SaveEnded
    /\ uret.value = "theory"
    /\ ustart.theoryFile.kind = "theory"
    /\ theoryFile # ustart.theoryFile

BackupFiles == {st \in Stamps : backups[st].kind # "absent"}

\* C9: after k successful updates there are k backup files, and each run's
\* backup still holds that run's theory.
C9_EveryRunKeepsItsBackup ==
    /\ Cardinality(BackupFiles) >= Len(saved)
    /\ \A i \in DOMAIN saved :
         /\ backups[saved[i].stamp].kind = "theory"
         /\ backups[saved[i].stamp].run = saved[i].run

-----------------------------------------------------------------------------
(* The viewer beside the analyzer and the summary generator                *)

\* A request is served between two steps of the other programs.
NextViewer ==
    \/ view = NotLoaded /\ \E d \in PdfStems : Start("p1", d, FALSE)
    \/ view = NotLoaded /\ Run("p1")
    \/ view = NotLoaded /\ KillDuringSave("p1")
    \/ view = NotLoaded /\ SummaryMain
    \/ index
    \/ ViewerRespond

SpecViewer == Init /\ [][NextViewer]_vars

SeqSet(sq) == {sq[i] : i \in DOMAIN sq}

NoDuplicates(sq) == \A i, j \in DOMAIN sq : sq[i] = sq[j] => i = j

\* C10: whatever *.json files the output directory holds,
\* load_analysis_results does not raise and returns, once each, exactly the
\* files whose content loads; a file that is not valid JSON gives no entry.
C10_LoadSkipsOnlyBadFiles ==
    [][view = NotLoaded /\ view'.path = "/" =>
         /\ view'.status = "ok"
         /\ NoDuplicates(view'.papers)
         /\ SeqSet(view'.papers) = {f \in FileNames : Loads(outDir, f)}]_vars

\* C11: processed_papers.json and summaries.json never appear among the
\* papers that GET / loads, and the request does not fail because of them.
C11_NonPaperFilesSkipped ==
    view.path = "/" =>
        /\ view.status = "ok"
        /\ PROCESSED_LOG \notin SeqSet(view.papers)
        /\ OUTPUT_JSON \notin SeqSet(view.papers)

-----------------------------------------------------------------------------
(* The viewer over a fixture directory                                     *)

\* Names of three result files.
FixtureNames == {OutputName(<<"Q">>), OutputName(<<"x">>), OutputName(<<"y">>)}

\* What a result file of the fixture says: its evidence, its supported
\* claims and how many insights.
FixtureContents ==
    { [evidence |-> <<>>, claims |-> <<>>, insights |-> 0],
      [evidence |-> <<"causal_control", "binding">>, claims |-> <<1>>, insights |-> 1],
      [evidence |-> <<"causal_control">>, claims |-> <<1, 2>>, insights |-> 0] }

\* A result file with timestamp t (0: it has no _metadata).
FixtureResult(t, c) ==
    DictFile(NoEntries,
             [has |-> TRUE, pdf |-> <<"x">>, title |-> <<"Q">>, stub |-> FALSE,
              ts |-> t, evidence |-> c.evidence, claims |-> c.claims,
              insights |-> c.insights,
              model_used |-> IF t = 0 THEN "none" ELSE DefaultModel])

FixtureFiles ==
    {Absent, InvalidFile}
    \cup {FixtureResult(t, c) : t \in {0} \cup Stamps, c \in FixtureContents}

\* The ledger after x.pdf was processed into Q.json.
FixtureLedger ==
    DictFile([NoEntries EXCEPT ![<<"x">>] =
                 [has |-> TRUE, file_hash |-> MD5("b1"),
                  output_file |-> OutputName(<<"Q">>)]],
             NoResult)

InitFixture ==
    /\ InitRest
    /\ \E files \in [FixtureNames -> FixtureFiles],
          ledger \in {Absent, FixtureLedger},
          summaries \in {Absent, ListFile} :
          outDir = [f \in FileNames |->
                      IF f \in FixtureNames THEN files[f]
                      ELSE IF f = PROCESSED_LOG THEN ledger
                      ELSE IF f = OUTPUT_JSON THEN summaries
                      ELSE Absent]

NextFixture ==
    \/ index
    \/ \E path \in ApiPaths : NotFound(path)
    \/ ViewerRespond

SpecFixture == InitFixture /\ [][NextFixture]_vars

Stamp(f) == outDir[f].result.ts

\* C12: the papers GET / returns are in descending order of
\* _metadata.analysis_timestamp, and a paper without one comes after every
\* paper that has one.
C12_SortedNewestFirst ==
    (view.path = "/" /\ view.status = "ok") =>
        \A i, j \in DOMAIN view.papers :
            i < j =>
              /\ Stamp(view.papers[i]) >= Stamp(view.papers[j])
              /\ Stamp(view.papers[i]) = 0 => Stamp(view.papers[j]) = 0

\* C12, its case: three papers were returned, the first two with different
\* timestamps and the last with none.
C12_Witness ==
    /\ view.path = "/"
    /\ view.status = "ok"
    /\ Len(view.papers) >= 3
    /\ Stamp(view.papers[1]) > Stamp(view.papers[2])
    /\ Stamp(view.papers[2]) > 0
    /\ Stamp(view.papers[Len(view.papers)]) = 0

EvidenceLen(f) == Len(outDir[f].result.evidence)

Phenomena == {"causal_control", "binding"}

PhenomenonCount(ph) ==
    Sum([i \in DOMAIN view.papers |->
            Count(outDir[view.papers[i]].result.evidence, ph)])

\* C13: the statistics of GET / hold total_evidence, the sum of the lengths
\* of the evidence arrays of the loaded files, and phenomenon_counts, the
\* number of evidence items per phenomenon_id.
C13_EvidenceTotals ==
    (view.path = "/" /\ view.status = "ok") =>
        /\ {"total_evidence", "phenomenon_counts"} \subseteq DOMAIN view.stats
        /\ view.stats.total_evidence =
               Sum([i \in DOMAIN view.papers |-> EvidenceLen(view.papers[i])])
        /\ \A ph \in Phenomena :
             PhenomenonCount(ph) > 0 =>
               view.stats.phenomenon_counts[ph] = PhenomenonCount(ph)

\* C14: a GET of /api/papers, /api/phenomena, /api/stats or /api/claims is
\* answered, with the papers and statistics GET / gives for that directory.
C14_ApiMirrorsIndex ==
    view.path \in ApiPaths =>
        /\ view.status = "ok"
        /\ \E json_files \in GlobJson(outDir) :
             LET loaded == load_analysis_results(outDir, json_files)
             IN  /\ view.papers = loaded.papers
                 /\ view.stats = calculate_statistics(outDir, loaded.papers)

-----------------------------------------------------------------------------
(* Claims about the analyzer's runs                                        *)

StubName(d) == OutputName(d)

AnalyzeAttempt ==
    rcall = "analyzer.analyze_with_store" /\ rattempt' = rattempt + 1

StubReturned == res["p1"].stub /\ ret["p1"] = "result"

\* C15: an attempt of analyze_with_store whose response text is not valid
\* JSON returns the stub: it does not raise and no further attempt follows;
\* analyze_paper_from_pdf does not raise on the stub, and the batch loop
\* counts the paper and goes on with the PDFs that remain.
C15_StubDoesNotStopBatch ==
    [][/\ (AnalyzeAttempt /\ rvalue'.text = "not_json")
          => (rout' = Returned /\ rvalue'.value = "stub")
       /\ (pc'["p1"] = "done" /\ res'["p1"].stub) => ret'["p1"] # "raised"
       /\ (batch.pc = "item" /\ StubReturned /\ pc["p1"] = "done" /\ pc'["p1"] = "idle")
          => /\ batch'.pc = "loop"
             /\ batch'.todo = Tail(batch.todo)
             /\ batch'.successful = batch.successful + 1]_vars

\* C15, its case: a batch over two PDFs ended with both counted, each saved as
\* a stub: after the first stub the loop went on to the second PDF.
C15_Witness ==
    /\ batch.pc = "summary"
    /\ batch.found = 2
    /\ batch.successful = 2
    /\ batch.attempted = PdfStems
    /\ \A d \in PdfStems :
         outDir[StubName(d)].json = "dict" /\ outDir[StubName(d)].result.stub

\* C16: in the batch loop an input that is missing when its turn comes fails
\* only that item: no exception leaves the loop, and at the summary every
\* listed PDF has been attempted.
C16_MissingInputFailsOnlyItem ==
    /\ batch.todo # <<>> => batch.pc # "crashed"
    /\ batch.pc = "summary" => Cardinality(batch.attempted) = batch.found

\* C17: when a batch run reaches its summary, every PDF found was counted in
\* exactly one counter: successful + skipped + failed is the number found.
C17_CountersAddUp ==
    batch.pc = "summary" =>
        batch.successful + batch.skipped + batch.failed = batch.found

\* C17, its case: a batch of two PDFs ended with one skipped and one failed.
C17_Witness ==
    /\ batch.pc = "summary"
    /\ batch.found = 2
    /\ batch.skipped = 1
    /\ batch.failed = 1

\* C18: an analyzer run, single-PDF or batch, in which the analysis of a paper
\* failed does not exit with code 0.
C18_FailureExitsNonZero ==
    batch.exit = "0" => batch.failed = 0

\* C19: the _metadata.model_used of a result that is persisted is the model
\* named in the API request that produced it, and that is the --model choice.
C19_ModelUsedIsModelCalled ==
    [][(pc["p1"] = "save_json" /\ pc'["p1"] = "sp_load")
         => (res["p1"].model_used = called["p1"] /\ called["p1"] = model["p1"])]_vars

\* C20: once the result file of one PDF exists, the analysis of another PDF
\* does not overwrite it.
C20_ResultFilesImmutable ==
    [][\A p \in Procs :
         (pc[p] = "save_json" /\ pc'[p] = "sp_load")
         => LET f == output_filename(res[p], cur[p])
            IN  (outDir[f].json = "dict" /\ outDir[f].result.has)
                => outDir[f].result.pdf = cur[p]]_vars

-----------------------------------------------------------------------------
\* The analyzer's output as the updater's input.

\* A result file that analyze_paper_from_pdf wrote (step 6, save_json).
WrittenResult(f) == outDir[f].json = "dict" /\ outDir[f].result.has

\* C21: every result file the analyzer has written is among the analyses that
\* load_all_analyses returns.
C21_WrittenResultsAreLoaded ==
    \A f \in FileNames :
        WrittenResult(f) => (GlobAnalysis(f) /\ InSeq(f, load_all_analyses(outDir)))

\* C28: in a batch run a PDF is counted as skipped only if no upload or LLM
\* call was made for it and no result was saved for it in this run.
C28_SkippedOnlyIfUntouched ==
    [][(batch.pc = "item" /\ batch'.pc = "loop"
            /\ batch'.skipped = batch.skipped + 1)
         => (~api["p1"] /\ ~res["p1"].has)]_vars

\* The steps of analyze_paper_from_pdf from the parsed result on: steps 6-8.
Persists(p) ==
    /\ pc[p] \in {"save_json", "sp_load", "sp_write"}
    /\ pc'[p] # pc[p]

\* C22: the steps that persist a result put into processed_papers.json, under
\* the PDF's filename, the MD5 of the PDF's bytes and the name of the result
\* file just written, and leave the entry of every other filename as it was.
C22_OtherEntriesUnchanged ==
    [][\A p \in Procs :
         /\ Persists(p) =>
               \A d \in PdfStems \ {cur[p]} :
                   load_processed_papers(outDir').entries[d]
                     = load_processed_papers(outDir).entries[d]
         /\ Writes(p) =>
               /\ LogEntry(cur[p])' = NewEntry(p)
               /\ Exists(outDir, NewEntry(p).output_file)]_vars

-----------------------------------------------------------------------------
\* The statistics of GET /.

\* How often claim c is among the supported claims of the papers returned.
Occurrences(c) ==
    Sum([i \in DOMAIN view.papers |->
            Count(extract_claims_list(outDir, view.papers[i]), c)])

\* sum(d.values()) of a dict of numbers.
RECURSIVE SumValues(_)
SumValues(d) ==
    IF DOMAIN d = {} THEN 0
    ELSE LET k == CHOOSE x \in DOMAIN d : TRUE
         IN  d[k] + SumValues([x \in DOMAIN d \ {k} |-> d[x]])

\* C23, its case: a claim occurs in three papers, another in fewer.
C23_Witness ==
    /\ view.path = "/"
    /\ view.status = "ok"
    /\ Occurrences(1) = 3
    /\ Occurrences(2) = 1
    /\ view.stats.total_claims = 4

\* C23: claim_counts holds, under each claim that occurs, the number of its
\* occurrences in the supported claims of all the papers and no other key,
\* and total_claims is the sum of the values of claim_counts.
C23_ClaimCountsAreOccurrences ==
    (view.path = "/" /\ view.status = "ok") =>
        LET counts == view.stats.claim_counts
        IN  /\ DOMAIN counts = {claim_str(c) : c \in {x \in ClaimIds : Occurrences(x) > 0}}
            /\ \A c \in ClaimIds :
                  Occurrences(c) > 0 => counts[claim_str(c)] = Occurrences(c)
            /\ view.stats.total_claims =
                  SumValues(counts)

-----------------------------------------------------------------------------
\* The updater's choice of the analysis to incorporate.

Loadable == SeqSet(load_all_analyses(outDir))

\* The analyses a theory file does not list as incorporated; a file that
\* does not load lists none.
NotIncorporated(tf) ==
    {f \in Loadable : tf.kind = "theory" => ~InSeq(f, tf.incorporated)}

\* C24: in a run without --analysis the analysis chosen is one the current
\* theory does not list, none has a greater timestamp among those, and there
\* is no choice (None) exactly when there is no such analysis.
C24_LatestNotIncorporated ==
    (upc # "idle" /\ ustart.specific = <<>>) =>
        LET candidates == NotIncorporated(ustart.theoryFile)
        IN  /\ unew = <<>> <=> candidates = {}
            /\ unew # <<>> =>
                  /\ unew \in candidates
                  /\ \A g \in candidates : Stamp(unew) >= Stamp(g)

\* C24, its case: the newest analysis is incorporated and the run chose the
\* older one.
C24_Witness ==
    /\ upc = "llm"
    /\ ustart.specific = <<>>
    /\ ustart.theoryFile.kind = "theory"
    /\ Len(ustart.theoryFile.incorporated) = 1
    /\ unew # <<>>
    /\ Stamp(unew) < Stamp(ustart.theoryFile.incorporated[1])

\* Runs of the updater without --analysis in which the LLM call returns a
\* theory and both files are written.
NextRepeat ==
    \/ UStart(<<>>)
    \/ upc = "llm" /\ AttemptReturns
    \/ UAfterCall
    \/ USaveCurrent("ok")
    \/ USaveBackup("ok")
    \/ UFinish
    \/ Tick

SpecRepeat == InitUpdater /\ [][NextRepeat]_vars

ListedNow == IF theoryFile.kind = "theory" THEN theoryFile.incorporated ELSE <<>>

\* A run begins: update_cumulative_theory is entered.
UStarts == upc = "idle" /\ upc' # "idle"

\* C25: with a fixed set of N loadable analysis files and runs that succeed,
\* every run incorporates one analysis not yet listed until all N are listed
\* (so N runs list each exactly once); a run that starts with all of them
\* listed makes no LLM call and leaves current_theory.json and the backups
\* as they are.
C25_EachAnalysisOnce ==
    [][/\ upc' = "idle" =>
             /\ NoDuplicates(ListedNow')
             /\ SeqSet(ListedNow') \subseteq Loadable
             /\ Len(ListedNow') = runs'
       /\ (UStarts /\ NotIncorporated(theoryFile) # {}) =>
             /\ upc' = "llm"
             /\ unew' \in NotIncorporated(theoryFile)
       /\ (UStarts /\ NotIncorporated(theoryFile) = {}) =>
             /\ upc' = "done"
             /\ rcall' = "none"
       /\ (upc = "done" /\ rcall = "none" /\ upc' = "idle") =>
             /\ theoryFile' = ustart.theoryFile
             /\ backups' = ustart.backups]_vars

\* C25, its case: both analyses were incorporated by two runs, and a third
\* run has found nothing new and returned the current theory.
C25_Witness ==
    /\ Cardinality(Loadable) = 2
    /\ runs = 2
    /\ Len(ListedNow) = 2
    /\ upc = "done"
    /\ rcall = "none"
    /\ uret = OnUpdateSuccess
    /\ theoryFile = ustart.theoryFile

\* C26: whatever runs of the updater there were, with or without --analysis,
\* succeeding or failing, the incorporated list of current_theory.json names
\* no file twice, and a theory written later still names every file the
\* theory before it named.
C26_IncorporatedIsAGrowingSet ==
    [][/\ NoDuplicates(ListedNow')
       /\ theoryFile'.kind = "theory" =>
             SeqSet(ListedNow) \subseteq SeqSet(ListedNow')]_vars

\* C27: a PDF is entered in processed_papers.json only with a result that
\* was parsed from the response; the {error, raw_response} stub is not
\* logged, so the next run analyses the PDF again.
C27_StubIsNotLogged ==
    [][\A p \in Procs : Writes(p) => ~res[p].stub]_vars

-----------------------------------------------------------------------------
\* The viewer's page in the browser: the script of HTML_TEMPLATE.

\* The page that is open: two papers, an evidence item in each.
PagePapers == {"P1", "P2"}

ItemIds == 1..2

\* The paper an evidence item belongs to.
ItemPaper == <<"P1", "P2">>

\* data-claim-number: the key of the item in evidence_details.
ItemClaim == <<"1", "2">>

\* The words of item.textContent.toLowerCase() that a search may ask for.
ItemWords == <<{"q"}, {}>>

\* String.toLowerCase() and Jinja's |lower.
Lower(str) ==
    CASE str = "Strong" -> "strong"
      [] str = "Q" -> "q"
      [] OTHER -> str

\* data-strength="{{ evidence.strength|lower if evidence.strength else 'unknown' }}"
data_strength(strength) == IF strength = "" THEN "unknown" ELSE Lower(strength)

AllStrengths == {"strong", "moderate", "weak"}

\* The page rendered and DOMContentLoaded handled: the script's variables
\* (lines 1171-1175), the controls, and the style and classes of the
\* elements. A display that no style sets is "block".
PageLoaded(strength) ==
    [open |-> TRUE,
     strength |-> [i \in ItemIds |-> data_strength(strength[i])],
     selectedClaims |-> {},
     selectedStrengths |-> AllStrengths,
     searchTerm |-> "",
     isFiltering |-> FALSE,
     checked |-> AllStrengths,
     searchInput |-> "",
     active |-> {},
     hidden |-> {},
     display |-> [p \in PagePapers |-> "block"],
     filtered |-> {},
     sections |-> [p \in PagePapers |-> "block"],
     evidenceSection |-> [p \in PagePapers |-> "block"],
     tags |-> {},
     noResults |-> "none",
     summary |-> [display |-> "none", evidence |-> 0, papers |-> 0]]

\* updateActiveFilters: the tags are rebuilt from the script's variables.
updateActiveFilters(b) ==
    [b EXCEPT !.tags =
        {<<"Claim", c>> : c \in b.selectedClaims}
        \cup (IF Cardinality(b.selectedStrengths) < 3
              THEN {<<"No", st>> : st \in AllStrengths \ b.selectedStrengths}
              ELSE {})
        \cup (IF b.searchTerm # "" THEN {<<"Search", b.searchTerm>>} ELSE {})]

\* filterContent, lines 1233-1296.
filterContent(b) ==
    LET hideSections ==
            \/ b.selectedClaims # {}
            \/ ~(AllStrengths \subseteq b.selectedStrengths)
        matchesClaim(i) == b.selectedClaims = {} \/ ItemClaim[i] \in b.selectedClaims
        matchesStrength(i) == b.strength[i] \in b.selectedStrengths
        matchesSearch(i) == b.searchTerm = "" \/ b.searchTerm \in ItemWords[i]
        matches(i) == matchesClaim(i) /\ matchesStrength(i) /\ matchesSearch(i)
        paperHasMatch(p) == \E i \in ItemIds : ItemPaper[i] = p /\ matches(i)
        narrowed == b.selectedClaims # {} \/ b.searchTerm # ""
        hidden == {i \in ItemIds : ~matches(i)}
        visiblePapers == Cardinality({p \in PagePapers : paperHasMatch(p)})
    IN  [b EXCEPT
           !.hidden = hidden,
           !.display = [p \in PagePapers |->
                          IF paperHasMatch(p) THEN "block"
                          ELSE IF narrowed THEN "none" ELSE "block"],
           !.filtered = {p \in PagePapers :
                           \/ paperHasMatch(p)
                           \/ (narrowed /\ p \in b.filtered)},
           !.sections = [p \in PagePapers |->
                           IF ~paperHasMatch(p) /\ ~narrowed THEN "block"
                           ELSE IF hideSections THEN "none"
                           ELSE b.sections[p]],
           !.evidenceSection = [p \in PagePapers |->
                           IF /\ paperHasMatch(p)
                              /\ \A i \in ItemIds : ItemPaper[i] = p => i \in hidden
                           THEN "none" ELSE b.evidenceSection[p]],
           !.noResults = IF visiblePapers = 0 /\ b.isFiltering
                         THEN "block" ELSE "none"]

\* updateResultsSummary, lines 1349-1364.
updateResultsSummary(b) ==
    IF \/ ~b.isFiltering
       \/ (/\ b.selectedClaims = {}
           /\ Cardinality(b.selectedStrengths) = 3
           /\ b.searchTerm = "")
    THEN [b EXCEPT !.summary.display = "none"]
    ELSE [b EXCEPT !.summary =
            [display |-> "block",
             evidence |-> Cardinality(ItemIds \ b.hidden),
             papers |-> Cardinality({p \in PagePapers : b.display[p] # "none"})]]

\* toggleClaim(claimNum), lines 1199-1211.
toggleClaim(b, claimNum) ==
    updateActiveFilters(
        IF claimNum \in b.selectedClaims
        THEN [b EXCEPT !.selectedClaims = @ \ {claimNum}, !.active = @ \ {claimNum}]
        ELSE [b EXCEPT !.selectedClaims = @ \cup {claimNum},
                       !.active = @ \cup {claimNum}])

\* applyFilters, lines 1214-1230.
applyFilters(b) ==
    updateResultsSummary(updateActiveFilters(filterContent(
        [b EXCEPT !.isFiltering = TRUE,
                  !.selectedStrengths = b.checked,
                  !.searchTerm = Lower(b.searchInput)])))

\* clearAllFilters, lines 1367-1398.
clearAllFilters(b) ==
    LET reset == [b EXCEPT
                    !.selectedClaims = {},
                    !.active = {},
                    !.checked = AllStrengths,
                    !.searchInput = "",
                    !.searchTerm = "",
                    !.isFiltering = FALSE,
                    !.display = [p \in PagePapers |-> "block"],
                    !.filtered = {},
                    !.hidden = {},
                    !.sections = [p \in PagePapers |-> "block"],
                    !.evidenceSection = [p \in PagePapers |-> "block"]]
    IN  [updateResultsSummary(updateActiveFilters(reset)) EXCEPT !.noResults = "none"]

\* What a user event leaves alone: the server and the scripts.
otherThanBrowser == <<analyzerVars, retryVars, clock, updaterVars, view, batch>>

\* The browser gets the page and runs its script.
OpenPage(strength) ==
    /\ ~browser.open
    /\ browser' = PageLoaded(strength)
    /\ UNCHANGED otherThanBrowser

\* A click on a claim option: onclick="toggleClaim('<num>')".
ClickClaim(claimNum) ==
    /\ browser.open
    /\ browser' = toggleClaim(browser, claimNum)
    /\ UNCHANGED otherThanBrowser

\* A click on a strength checkbox: the box changes, no handler runs.
ClickStrength(st) ==
    /\ browser.open
    /\ browser' = [browser EXCEPT !.checked =
                      IF st \in @ THEN @ \ {st} ELSE @ \cup {st}]
    /\ UNCHANGED otherThanBrowser

\* The user edits the search box; nothing runs before Enter or Apply.
TypeSearch(text) ==
    /\ browser.open
    /\ browser.searchInput # text
    /\ browser' = [browser EXCEPT !.searchInput = text]
    /\ UNCHANGED otherThanBrowser

\* "Apply Filters", or Enter in the search box (lines 1401-1405).
ClickApply ==
    /\ browser.open
    /\ browser' = applyFilters(browser)
    /\ UNCHANGED otherThanBrowser

\* "Clear All".
ClickClear ==
    /\ browser.open
    /\ browser' = clearAllFilters(browser)
    /\ UNCHANGED otherThanBrowser

\* The page is rendered from results whose evidence.strength is "Strong",
\* "weak" or missing (""); the user clicks the options of claims 1 and 2,
\* the strength boxes and the buttons, and types "Q" or clears the box.
NextFilter ==
    \/ \E strength \in [ItemIds -> {"Strong", "weak", ""}] : OpenPage(strength)
    \/ \E c \in {"1", "2"} : ClickClaim(c)
    \/ \E st \in AllStrengths : ClickStrength(st)
    \/ \E text \in {"", "Q"} : TypeSearch(text)
    \/ ClickApply
    \/ ClickClear

SpecFilter == Init /\ [][NextFilter]_vars

\* Every evidence item is shown: none carries hidden-by-filter, and its
\* paper and its evidence section are displayed.
AllVisible(b) ==
    /\ b.hidden = {}
    /\ \A p \in PagePapers : b.display[p] = "block" /\ b.evidenceSection[p] = "block"

\* C29: whatever was toggled and applied before it, clearAllFilters leaves
\* no claim selected, all three strengths selected, the search term empty,
\* isFiltering false, every paper and evidence item visible and no
\* active-filter tag.
C29_ClearRestoresInitialFilter ==
    [][(browser.open /\ browser' = clearAllFilters(browser)) =>
          /\ browser'.selectedClaims = {}
          /\ browser'.selectedStrengths = AllStrengths
          /\ browser'.searchTerm = ""
          /\ ~browser'.isFiltering
          /\ AllVisible(browser')
          /\ browser'.tags = {}]_vars

\* C30: applyFilters with no claim selected, the three strength boxes
\* checked and the search box empty, on a page that shows everything, hides
\* no evidence item, whatever the items' data-strength.
C30_ApplyWithoutFiltersHidesNothing ==
    [][(/\ browser.open
        /\ browser' = applyFilters(browser)
        /\ browser.selectedClaims = {}
        /\ browser.checked = AllStrengths
        /\ browser.searchInput = ""
        /\ AllVisible(browser))
         => AllVisible(browser')]_vars

====
